---- MODULE Spec2Model ----
(***************************************************************************)
(* pyOSCeleton (OSCeleton.py): the OSCeleton receiver that assembles, per  *)
(* user, a Skeleton from /joint and /orient messages, publishes the        *)
(* previous frame when a joint label repeats, and hands the published      *)
(* skeletons to a polling consumer.                                        *)
(*                                                                         *)
(* Numbers are fixed point in units of 1/2, so that the raw coordinate 0.5 *)
(* of the sensor is the integer 1 (see Half).                              *)
(***************************************************************************)
EXTENDS Integers, Sequences, FiniteSets, TLC

\* ------------------------------------------------------------------ bounds
\* the number of calls (messages handled and polls of the consumer) of a run
MaxEvents == 5

\* ------------------------------------------------------------------ inputs
\* user ids carried by the messages
Users == {1, 2}
\* OSCeleton objects of the process
Instances == {1, 2}

\* args[0] of /joint and /orient is a string or an integer
StrArg(s) == [tag |-> "str", s |-> s, n |-> 0]
IntArg(n) == [tag |-> "int", s |-> "", n |-> n]
Labels == {StrArg("head"), IntArg(1)}

\* a number n of the source in the model's unit of 1/2
Half(n) == 2 * n

\* raw x, y, z of a /joint message: (0.5, 0.5, 0.5) and (0, 1, 0.5)
RawPoints == {<<1, 1, 1>>, <<0, 2, 1>>}
\* the nine values m0..m8 of an /orient message
RawMatrices == {<<1, 2, 3, 4, 5, 6, 7, 8, 9>>, <<9, 8, 7, 6, 5, 4, 3, 2, 1>>}

JointArgs == {<<l, u>> \o p : l \in Labels, u \in Users, p \in RawPoints}
OrientArgs == {<<l, u>> \o m : l \in Labels, u \in Users, m \in RawMatrices}

\* ------------------------------------------------------------------ python
\* args[i] of the handlers: Python indexes from 0
Arg(args, i) == args[i + 1]
\* args[i:j]
Slice(args, i, j) == SubSeq(args, i + 1, j)

DecimalDigits == <<"0", "1", "2", "3", "4", "5", "6", "7", "8", "9">>
\* str(args[0]) for the label of a message (integers of one digit)
str(a) == IF a.tag = "str" THEN a.s ELSE DecimalDigits[a.n + 1]

\* {}
EmptyDict == <<>>
\* d[k] = v
DictSet(d, k, v) == [x \in DOMAIN d \cup {k} |-> IF x = k THEN v ELSE d[x]]
\* del d[k], for k in d
DictDel(d, k) == [x \in DOMAIN d \ {k} |-> d[x]]
\* d.values(), in no order
DictValues(d) == {d[k] : k \in DOMAIN d}

\* ------------------------------------------------------------------- Point
Point(x, y, z) == [x |-> x, y |-> y, z |-> z]

\* Point.copy
PointCopy(p) == Point(p.x, p.y, p.z)

\* ---------------------------------------------------------------- Skeleton
\* Skeleton.__init__
Skeleton(user) == [id |-> user, joints |-> EmptyDict, orient |-> EmptyDict]

\* Skeleton.__setitem__
SkeletonSetItem(skel, key, value) ==
    [skel EXCEPT !.joints = DictSet(skel.joints, key, value)]

\* Skeleton.copy_joints
copy_joints(skel) == [jointName \in DOMAIN skel.joints |-> PointCopy(skel.joints[jointName])]

\* Skeleton.clear without line 234: orient is not cleared
ClearJointsOnly(skel) == [skel EXCEPT !.joints = EmptyDict]

\* Skeleton.clear
clear(skel) == [skel EXCEPT !.joints = EmptyDict, !.orient = EmptyDict]

\* ------------------------------------------------------------------- state
VARIABLES
    users,      \* OSCeleton.users: user id -> published Skeleton (class attribute)
    _users,     \* OSCeleton._users: user id -> Skeleton being assembled (class attribute)
    frames,     \* frames as each OSCeleton object reads it
    lostUsers,  \* OSCeleton.lostUsers (class attribute)
    realWorld,  \* realWorld as each OSCeleton object reads it
    tmp,        \* what the latest get_new_skeletons call returned
    last,       \* history: the latest call: whether it raised, published, replaced a publication
    stamp,      \* history: user id -> serial number of the publication held in users
    issued,     \* history: number of publications so far
    published,  \* history: publications of each OSCeleton object so far
    drained,    \* history: serial numbers returned by the calls before the latest
    tmpStamps,  \* history: serial numbers returned by the latest get_new_skeletons
    fresh,      \* history: a publication happened since the latest get_new_skeletons
    handled,    \* history: number of calls so far
    pc,         \* the line get_new_skeletons is at, "idle" between its calls
    listed,     \* what the latest get_users call returned
    active,     \* history: users whose latest new_user, joint, orient or lost_user is not lost_user
    window,     \* history: user id -> label -> point of the /joint messages of its current frame
    discarded,  \* history: serial numbers of the publications lost_user removed from users
    heap        \* the Skeleton and dict objects behind users, _users and the returned lists

vars == <<users, _users, frames, lostUsers, realWorld, tmp, last,
          stamp, issued, published, drained, tmpStamps, fresh, handled,
          pc, listed, active, window, discarded, heap>>

Call(op, self, user, key, promoted) ==
    [op |-> op, self |-> self, user |-> user, key |-> key,
     promoted |-> promoted, over |-> FALSE, exc |-> "none"]

NoCall == Call("init", 0, 0, "", FALSE)

\* no object yet: users and _users are empty, nothing was returned
EmptyHeap ==
    [on |-> TRUE, skel |-> EmptyDict, dict |-> EmptyDict,
     _users |-> EmptyDict, users |-> EmptyDict, tmp |-> {}]

\* class attributes of OSCeleton, before any message
InitAttributes ==
    /\ users = EmptyDict
    /\ _users = EmptyDict
    /\ frames = [i \in Instances |-> 0]
    /\ lostUsers = <<>>
    /\ realWorld = [i \in Instances |-> FALSE]
    /\ tmp = {}
    /\ last = NoCall
    /\ stamp = EmptyDict
    /\ issued = 0
    /\ published = [i \in Instances |-> 0]
    /\ drained = {}
    /\ tmpStamps = {}
    /\ fresh = FALSE
    /\ handled = 0
    /\ pc = "idle"
    /\ listed = {}
    /\ active = {}
    /\ window = EmptyDict
    /\ discarded = {}

\* the objects are followed in SpecHeap only
Init ==
    /\ InitAttributes
    /\ heap = [EmptyHeap EXCEPT !.on = FALSE]

InitHeap ==
    /\ InitAttributes
    /\ heap = EmptyHeap

\* the objects no reference leads to any more are freed
Collect(h) ==
    LET live == DictValues(h._users) \cup DictValues(h.users) \cup h.tmp
        dicts == {h.skel[a].joints : a \in live} \cup {h.skel[a].orient : a \in live}
    IN  [h EXCEPT !.skel = [a \in live |-> h.skel[a]],
                  !.dict = [a \in dicts |-> h.dict[a]]]

\* the objects after a call that leaves them as h
Objects(h) == heap' = IF heap.on THEN Collect(h) ELSE heap

\* one more call, within the bound of the run
Tick ==
    /\ handled < MaxEvents
    /\ handled' = handled + 1

\* the history of a call that publishes nothing and returns nothing
Quiet(call) ==
    /\ Tick
    /\ last' = call
    /\ UNCHANGED <<tmp, stamp, issued, published, drained, tmpStamps, fresh>>
    /\ UNCHANGED <<pc, listed, discarded>>

\* history: a message names user u, who is tracked from now on if not already
Tracked(u) ==
    /\ active' = active \cup {u}
    /\ window' = IF u \in DOMAIN window THEN window
                 ELSE [v \in DOMAIN window \cup {u} |-> IF v = u THEN <<>> ELSE window[v]]

\* the point a /joint message with these args carries, as the object self stores it
StoredPoint(self, args) ==
    IF realWorld[self]
    THEN [x |-> 2560 - 2560 * args[3], y |-> 1920 - 1920 * args[4], z |-> -(1280 * args[5])]
    ELSE [x |-> args[3], y |-> args[4], z |-> args[5]]

\* history: the frame of the user after a /joint: the message opens a new frame
\* when its label is in the current one, and joins the current one otherwise
WindowAfterJoint(self, args) ==
    LET u == args[2]
        k == IF args[1].tag = "str" THEN args[1].s ELSE DecimalDigits[args[1].n + 1]
        w == IF u \in DOMAIN window THEN window[u] ELSE <<>>
        w1 == IF k \in DOMAIN w
              THEN [x \in {k} |-> StoredPoint(self, args)]
              ELSE [x \in DOMAIN w \cup {k} |-> IF x = k THEN StoredPoint(self, args) ELSE w[x]]
    IN  [v \in DOMAIN window \cup {u} |-> IF v = u THEN w1 ELSE window[v]]

\* ------------------------------------------------------------- the objects
\* heap.skel[a] is the Skeleton object at address a, its joints and orient the
\* addresses in heap.dict of its two dictionaries; a Point and the list of an
\* orientation are never assigned to after they are built, and are values.
\* An address is <<user, k>>: the first free k among the objects made for user.
NewAddress(objects, user) ==
    <<user, CHOOSE k \in 1..(Cardinality(DOMAIN objects) + 1) :
               /\ <<user, k>> \notin DOMAIN objects
               /\ \A j \in 1..(k - 1) : <<user, j>> \in DOMAIN objects>>

\* Skeleton.__init__: self.id = user, self.joints = {}, self.orient = {}
HeapSkeleton(h, user) ==
    LET joints == NewAddress(h.dict, user)
        orient == NewAddress(DictSet(h.dict, joints, EmptyDict), user)
    IN  [h EXCEPT !.dict = DictSet(DictSet(h.dict, joints, EmptyDict), orient, EmptyDict),
                  !.skel = DictSet(h.skel, NewAddress(h.skel, user),
                                   [id |-> user, joints |-> joints, orient |-> orient])]

\* the Skeleton at address a, read through its two dictionaries
SkeletonAt(h, a) ==
    [id |-> h.skel[a].id, joints |-> h.dict[h.skel[a].joints],
     orient |-> h.dict[h.skel[a].orient]]

\* self._users[args[0]] = Skeleton(args[0])
HeapNewUser(h, u) ==
    LET h1 == HeapSkeleton(h, u)
    IN  [h1 EXCEPT !._users = DictSet(h1._users, u, NewAddress(h.skel, u))]

\* lost_user_callback: del self._users[args[0]], del self.users[args[0]]
HeapLostUser(h, u) ==
    IF u \notin DOMAIN h._users THEN h
    ELSE IF u \notin DOMAIN h.users THEN [h EXCEPT !._users = DictDel(h._users, u)]
    ELSE [h EXCEPT !._users = DictDel(h._users, u), !.users = DictDel(h.users, u)]

\* joint_callback and orient_callback, lines 296-297 and 320-321
HeapEnsureUser(h, u) == IF u \notin DOMAIN h._users THEN HeapNewUser(h, u) ELSE h

\* joint_callback: if str(args[0]) in self._users[args[1]].joints
HeapIsNewFrame(h, u, key) == key \in DOMAIN h.dict[h.skel[h._users[u]].joints]

\* joint_callback, lines 301-302: the Skeleton in users is made if there is none
HeapEnsurePublished(h, u) ==
    IF u \notin DOMAIN h.users
    THEN LET h1 == HeapSkeleton(h, u)
         IN  [h1 EXCEPT !.users = DictSet(h1.users, u, NewAddress(h.skel, u))]
    ELSE h

\* joint_callback with self.users[u].joints = self._users[u].joints and
\* self.users[u].orient = self._users[u].orient: no copy is made
HeapSaveFrameShared(h, u) ==
    LET h1 == HeapEnsurePublished(h, u)
        s == h1.users[u]
        w == h1._users[u]
    IN  [h1 EXCEPT !.skel[s].joints = h1.skel[w].joints,
                   !.skel[s].orient = h1.skel[w].orient]

\* joint_callback, lines 303-304: the Skeleton in users gets two new
\* dictionaries, copy_joints() and orient.copy()
HeapSaveFrame(h, u) ==
    LET h1 == HeapEnsurePublished(h, u)
        s == h1.users[u]
        w == h1._users[u]
        copied == [jointName \in DOMAIN h1.dict[h1.skel[w].joints] |->
                      PointCopy(h1.dict[h1.skel[w].joints][jointName])]
        joints == NewAddress(h1.dict, u)
        d1 == DictSet(h1.dict, joints, copied)
        orient == NewAddress(d1, u)
    IN  [h1 EXCEPT !.dict = DictSet(d1, orient, h1.dict[h1.skel[w].orient]),
                   !.skel[s].joints = joints,
                   !.skel[s].orient = orient]

\* Skeleton.clear: self.joints.clear(), self.orient.clear()
HeapClearFrame(h, u) ==
    [h EXCEPT !.dict = [a \in DOMAIN h.dict |->
                          IF a \in {h.skel[h._users[u]].joints, h.skel[h._users[u]].orient}
                          THEN EmptyDict ELSE h.dict[a]]]

\* Skeleton.__setitem__: self.joints[key] = value
HeapStoreJoint(h, u, key, value) ==
    [h EXCEPT !.dict[h.skel[h._users[u]].joints] = DictSet(@, key, value)]

\* orient_callback: self._users[args[1]].orient[str(args[0])] = [x, y, z]
HeapStoreOrient(h, u, key, value) ==
    [h EXCEPT !.dict[h.skel[h._users[u]].orient] = DictSet(@, key, value)]

\* get_new_skeletons: tmp = self.users.values()
HeapGetNewSkeletonsTmp(h) == [h EXCEPT !.tmp = DictValues(h.users)]

\* get_new_skeletons without line 348
HeapGetNewSkeletonsKeep(h) == h

\* get_new_skeletons: self.users.clear()
HeapGetNewSkeletonsClear(h) == [h EXCEPT !.users = EmptyDict]

\* ---------------------------------------------------------------- handlers
\* new_user_callback that keeps the Skeleton of a user it already has
NewUserIfAbsent(args) ==
    IF Arg(args, 0) \in DOMAIN _users
    THEN _users
    ELSE DictSet(_users, Arg(args, 0), Skeleton(Arg(args, 0)))

\* new_user_callback: self._users[args[0]] = Skeleton(args[0])
NewUserUsers(args) == DictSet(_users, Arg(args, 0), Skeleton(Arg(args, 0)))

new_user_callback(self, args) ==
    /\ _users' = NewUserUsers(args)
    /\ UNCHANGED <<users, frames, lostUsers, realWorld>>
    /\ Quiet(Call("new_user", self, Arg(args, 0), "", FALSE))
    /\ Objects(HeapNewUser(heap, Arg(args, 0)))
    /\ active' = active \cup {Arg(args, 0)}
    /\ window' = [v \in DOMAIN window \cup {Arg(args, 0)} |->
                    IF v = Arg(args, 0) THEN <<>> ELSE window[v]]

\* lost_user_callback with lines 280 and 282 exchanged: users is deleted from first
LostUserUsersFirst(args) ==
    LET u == Arg(args, 0) IN
    IF u \notin DOMAIN users
    THEN [_users |-> _users, lostUsers |-> lostUsers, users |-> users, exc |-> "KeyError"]
    ELSE IF u \notin DOMAIN _users
    THEN [_users |-> _users, lostUsers |-> Append(lostUsers, u),
          users |-> DictDel(users, u), exc |-> "KeyError"]
    ELSE [_users |-> DictDel(_users, u), lostUsers |-> Append(lostUsers, u),
          users |-> DictDel(users, u), exc |-> "none"]

\* lost_user_callback with line 281 before line 280: the append comes first
LostUserAppendFirst(args) ==
    LET u == Arg(args, 0) IN
    IF u \notin DOMAIN _users
    THEN [_users |-> _users, lostUsers |-> Append(lostUsers, u), users |-> users,
          exc |-> "KeyError"]
    ELSE IF u \notin DOMAIN users
    THEN [_users |-> DictDel(_users, u), lostUsers |-> Append(lostUsers, u),
          users |-> users, exc |-> "KeyError"]
    ELSE [_users |-> DictDel(_users, u), lostUsers |-> Append(lostUsers, u),
          users |-> DictDel(users, u), exc |-> "none"]

\* lost_user_callback that clears the joints of the user and keeps its orientations
LostUserKeepsOrient(args) ==
    LET u == Arg(args, 0) IN
    IF u \notin DOMAIN _users
    THEN [_users |-> _users, lostUsers |-> lostUsers, users |-> users, exc |-> "KeyError"]
    ELSE IF u \notin DOMAIN users
    THEN [_users |-> [_users EXCEPT ![u].joints = EmptyDict],
          lostUsers |-> Append(lostUsers, u), users |-> users, exc |-> "KeyError"]
    ELSE [_users |-> [_users EXCEPT ![u].joints = EmptyDict],
          lostUsers |-> Append(lostUsers, u), users |-> DictDel(users, u), exc |-> "none"]

\* lost_user_callback without line 282: users keeps the published Skeleton
LostUserNoUsersDel(args) ==
    LET u == Arg(args, 0) IN
    IF u \notin DOMAIN _users
    THEN [_users |-> _users, lostUsers |-> lostUsers, users |-> users, exc |-> "KeyError"]
    ELSE [_users |-> DictDel(_users, u), lostUsers |-> Append(lostUsers, u),
          users |-> users, exc |-> "none"]

\* lost_user_callback: the try block runs until its first KeyError
LostUser(args) ==
    LET u == Arg(args, 0) IN
    IF u \notin DOMAIN _users
    THEN [_users |-> _users, lostUsers |-> lostUsers, users |-> users, exc |-> "KeyError"]
    ELSE IF u \notin DOMAIN users
    THEN [_users |-> DictDel(_users, u), lostUsers |-> Append(lostUsers, u),
          users |-> users, exc |-> "KeyError"]
    ELSE [_users |-> DictDel(_users, u), lostUsers |-> Append(lostUsers, u),
          users |-> DictDel(users, u), exc |-> "none"]

\* except KeyError: pass
LostUserExcept(exc) == IF exc = "KeyError" THEN "none" ELSE exc

lost_user_callback(self, args) ==
    LET r == LostUser(args) IN
    /\ Tick
    /\ _users' = r._users
    /\ lostUsers' = r.lostUsers
    /\ users' = r.users
    /\ stamp' = [u \in DOMAIN r.users |-> stamp[u]]
    /\ last' = [Call("lost_user", self, Arg(args, 0), "", FALSE)
                   EXCEPT !.exc = LostUserExcept(r.exc)]
    /\ UNCHANGED <<frames, realWorld, tmp, issued, published, drained, tmpStamps, fresh>>
    /\ UNCHANGED <<pc, listed>>
    /\ active' = active \ {Arg(args, 0)}
    /\ window' = [v \in DOMAIN window \ {Arg(args, 0)} |-> window[v]]
    /\ discarded' = IF Arg(args, 0) \in DOMAIN stamp
                    THEN discarded \cup {stamp[Arg(args, 0)]}
                    ELSE discarded
    /\ Objects(HeapLostUser(heap, Arg(args, 0)))

\* do_nothing_callback
do_nothing_callback(self) ==
    /\ UNCHANGED <<users, _users, frames, lostUsers, realWorld>>
    /\ Quiet(Call("default", self, 0, "", FALSE))
    /\ Objects(heap)
    /\ UNCHANGED <<active, window>>

\* new_skeleton_callback that adds the user it names, as joint_callback does
NewSkeletonAddsUser(self, args) ==
    /\ _users' = IF Arg(args, 0) \in DOMAIN _users THEN _users
                 ELSE DictSet(_users, Arg(args, 0), Skeleton(Arg(args, 0)))
    /\ UNCHANGED <<users, frames, lostUsers, realWorld>>
    /\ Quiet(Call("new_skel", self, Arg(args, 0), "", FALSE))
    /\ UNCHANGED <<active, window>>
    /\ Objects(heap)

\* new_skeleton_callback
new_skeleton_callback(self, args) ==
    /\ UNCHANGED <<users, _users, frames, lostUsers, realWorld>>
    /\ Quiet(Call("new_skel", self, Arg(args, 0), "", FALSE))
    /\ UNCHANGED <<active, window>>
    /\ Objects(heap)

\* joint_callback, "add new user if they haven't been added already"
EnsureUser(U, u) == IF u \notin DOMAIN U THEN DictSet(U, u, Skeleton(u)) ELSE U

\* joint_callback: if str(args[0]) in self._users[args[1]].joints
IsNewFrame(U, args) == str(Arg(args, 0)) \in DOMAIN U[Arg(args, 1)].joints

\* SaveFrame without line 304: the orientations are not saved
SaveFrameNoOrient(P, U, u) ==
    LET P1 == IF u \notin DOMAIN P THEN DictSet(P, u, Skeleton(u)) ELSE P
    IN  [P1 EXCEPT ![u].joints = copy_joints(U[u])]

\* SaveFrame that updates the joints of a Skeleton already in users
SaveFrameUpdate(P, U, u) ==
    LET P1 == IF u \notin DOMAIN P THEN DictSet(P, u, Skeleton(u)) ELSE P
        P2 == [P1 EXCEPT ![u].joints =
                 [k \in DOMAIN P1[u].joints \cup DOMAIN U[u].joints |->
                    IF k \in DOMAIN U[u].joints THEN U[u].joints[k] ELSE P1[u].joints[k]]]
    IN  [P2 EXCEPT ![u].orient = U[u].orient]

\* joint_callback, "start a new frame and save the old one in users"
SaveFrame(P, U, u) ==
    LET P1 == IF u \notin DOMAIN P THEN DictSet(P, u, Skeleton(u)) ELSE P
        P2 == [P1 EXCEPT ![u].joints = copy_joints(U[u])]
    IN  [P2 EXCEPT ![u].orient = U[u].orient]

\* joint_callback without line 305: the saved frame is not cleared
ClearFrameNot(U, u) == U

\* joint_callback: self._users[args[1]].clear()
ClearFrame(U, u) == [U EXCEPT ![u] = clear(U[u])]

\* self.frames = OSCeleton.frames + 1: counts from the class attribute, which stays 0
CountFrameFromClass(F, self) == [F EXCEPT ![self] = 0 + 1]

\* joint_callback: self.frames += 1
CountFrame(F, self) == [F EXCEPT ![self] = F[self] + 1]

\* joint_callback with the constants of x in the line of y
JointPointSameConstants(self, args) ==
    IF realWorld[self]
    THEN Point(Half(1280) - Arg(args, 2) * 2560,
               Half(1280) - Arg(args, 3) * 2560,
               -Arg(args, 4) * 1280)
    ELSE Point(Slice(args, 2, 5)[1], Slice(args, 2, 5)[2], Slice(args, 2, 5)[3])

\* joint_callback, "convert to mm in real world measurements"
JointPoint(self, args) ==
    IF realWorld[self]
    THEN Point(Half(1280) - Arg(args, 2) * 2560,
               Half(960) - Arg(args, 3) * 1920,
               -Arg(args, 4) * 1280)
    ELSE Point(Slice(args, 2, 5)[1], Slice(args, 2, 5)[2], Slice(args, 2, 5)[3])

\* joint_callback that assigns the user a joints dictionary of the one new joint
StoreJointAlone(U, self, args) ==
    [U EXCEPT ![Arg(args, 1)].joints =
        [k \in {str(Arg(args, 0))} |-> JointPoint(self, args)]]

\* joint_callback: self._users[args[1]][str(args[0])] = Point(x, y, z)
StoreJoint(U, self, args) ==
    [U EXCEPT ![Arg(args, 1)] =
        SkeletonSetItem(U[Arg(args, 1)], str(Arg(args, 0)), JointPoint(self, args))]

\* joint_callback on the objects
HeapJoint(h, self, args) ==
    LET u == Arg(args, 1)
        key == str(Arg(args, 0))
        h1 == HeapEnsureUser(h, u)
        h2 == IF HeapIsNewFrame(h1, u, key) THEN HeapClearFrame(HeapSaveFrame(h1, u), u) ELSE h1
    IN  HeapStoreJoint(h2, u, key, JointPoint(self, args))

joint_callback(self, args) ==
    LET u == Arg(args, 1)
        U1 == EnsureUser(_users, u)
        new == IsNewFrame(U1, args)
        U2 == IF new THEN ClearFrame(U1, u) ELSE U1
    IN  /\ Tick
        /\ users' = IF new THEN SaveFrame(users, U1, u) ELSE users
        /\ frames' = IF new THEN CountFrame(frames, self) ELSE frames
        /\ _users' = StoreJoint(U2, self, args)
        /\ UNCHANGED <<lostUsers, realWorld>>
        /\ last' = [Call("joint", self, u, str(Arg(args, 0)), new)
                       EXCEPT !.over = new /\ u \in DOMAIN users]
        /\ stamp' = IF new THEN DictSet(stamp, u, issued + 1) ELSE stamp
        /\ issued' = IF new THEN issued + 1 ELSE issued
        /\ published' = IF new THEN [published EXCEPT ![self] = @ + 1] ELSE published
        /\ fresh' = (fresh \/ new)
        /\ UNCHANGED <<tmp, drained, tmpStamps>>
        /\ UNCHANGED <<pc, listed, discarded>>
        /\ active' = active \cup {u}
        /\ window' = WindowAfterJoint(self, args)
        /\ Objects(HeapJoint(heap, self, args))

\* orient_callback with y = args[4:7]
StoreOrientShifted(U, args) ==
    LET x == Slice(args, 2, 5)
        y == Slice(args, 4, 7)
        z == Slice(args, 8, Len(args))
    IN  [U EXCEPT ![Arg(args, 1)].orient =
            DictSet(U[Arg(args, 1)].orient, str(Arg(args, 0)), <<x, y, z>>)]

\* orient_callback: self._users[args[1]].orient[str(args[0])] = [x, y, z]
StoreOrient(U, args) ==
    LET x == Slice(args, 2, 5)
        y == Slice(args, 5, 8)
        z == Slice(args, 8, Len(args))
    IN  [U EXCEPT ![Arg(args, 1)].orient =
            DictSet(U[Arg(args, 1)].orient, str(Arg(args, 0)), <<x, y, z>>)]

\* orient_callback on the objects
HeapOrient(h, args) ==
    LET x == Slice(args, 2, 5)
        y == Slice(args, 5, 8)
        z == Slice(args, 8, Len(args))
    IN  HeapStoreOrient(HeapEnsureUser(h, Arg(args, 1)), Arg(args, 1),
                        str(Arg(args, 0)), <<x, y, z>>)

orient_callback(self, args) ==
    /\ _users' = StoreOrient(EnsureUser(_users, Arg(args, 1)), args)
    /\ UNCHANGED <<users, frames, lostUsers, realWorld>>
    /\ Quiet(Call("orient", self, Arg(args, 1), str(Arg(args, 0)), FALSE))
    /\ Tracked(Arg(args, 1))
    /\ Objects(HeapOrient(heap, args))

\* get_new_skeletons: tmp = self.users.values()
GetNewSkeletonsTmp == DictValues(users)

\* get_new_skeletons without line 348: users is not cleared
GetNewSkeletonsKeep == users

\* get_new_skeletons: self.users.clear()
GetNewSkeletonsUsers == EmptyDict

get_new_skeletons(self) ==
    /\ Tick
    /\ tmp' = GetNewSkeletonsTmp
    /\ users' = GetNewSkeletonsUsers
    /\ UNCHANGED <<_users, frames, lostUsers, realWorld>>
    /\ last' = Call("get_new_skeletons", self, 0, "", FALSE)
    /\ stamp' = [u \in DOMAIN GetNewSkeletonsUsers |-> stamp[u]]
    /\ tmpStamps' = {stamp[u] : u \in DOMAIN users}
    /\ drained' = drained \cup tmpStamps
    /\ fresh' = FALSE
    /\ UNCHANGED <<issued, published>>
    /\ UNCHANGED <<pc, listed, active, window, discarded>>
    /\ Objects(HeapGetNewSkeletonsClear(HeapGetNewSkeletonsTmp(heap)))

\* get_users that reads the keys of users
GetUsersPublished == DOMAIN users

\* get_users: return self._users.keys(), in no order
GetUsers == DOMAIN _users

get_users(self) ==
    /\ Tick
    /\ listed' = GetUsers
    /\ last' = Call("get_users", self, 0, "", FALSE)
    /\ UNCHANGED <<users, _users, frames, lostUsers, realWorld>>
    /\ UNCHANGED <<tmp, stamp, issued, published, drained, tmpStamps, fresh>>
    /\ UNCHANGED <<pc, active, window, discarded>>
    /\ Objects(heap)

\* OSCServer.handle_request dispatches one message to its handler
\* (OSCeleton.__init__, addMsgHandler)
run(self) ==
    \/ \E u \in Users : new_user_callback(self, <<u>>)
    \/ \E u \in Users : lost_user_callback(self, <<u>>)
    \/ \E u \in Users : new_skeleton_callback(self, <<u>>)
    \/ \E args \in JointArgs : joint_callback(self, args)
    \/ \E args \in OrientArgs : orient_callback(self, args)
    \/ do_nothing_callback(self)

\* the program owns one OSCeleton object
Next ==
    \/ run(1)
    \/ get_new_skeletons(1)

Spec == Init /\ [][Next]_vars

\* the program of Spec, with the objects behind the dictionaries followed
SpecHeap == InitHeap /\ [][Next]_vars

\* the program sets realWorld of an OSCeleton object: osc.realWorld = b
set_realWorld(self, b) ==
    /\ realWorld[self] # b
    /\ realWorld' = [realWorld EXCEPT ![self] = b]
    /\ UNCHANGED <<users, _users, frames, lostUsers>>
    /\ Quiet(Call("realWorld", self, 0, "", FALSE))
    /\ UNCHANGED <<active, window>>
    /\ Objects(heap)

\* run while the sensor sends positions only: it sends /orient on request
runPositions(self) ==
    \/ \E u \in Users : new_user_callback(self, <<u>>)
    \/ \E u \in Users : lost_user_callback(self, <<u>>)
    \/ \E u \in Users : new_skeleton_callback(self, <<u>>)
    \/ \E args \in JointArgs : joint_callback(self, args)
    \/ do_nothing_callback(self)

\* the program switches between the sensor's coordinates and millimetres
NextMode ==
    \/ runPositions(1)
    \/ get_new_skeletons(1)
    \/ \E b \in BOOLEAN : set_realWorld(1, b)

SpecMode == Init /\ [][NextMode]_vars

\* the program owns two OSCeleton objects, each with its own server
NextTwo ==
    \/ \E self \in Instances : run(self)
    \/ \E self \in Instances : get_new_skeletons(self)

SpecTwo == Init /\ [][NextTwo]_vars

\* the attributes read through OSCeleton object o: users, _users and lostUsers
\* are found on the class, frames on the object once it has counted a frame
Observed(o) ==
    [_users |-> _users, users |-> users, lostUsers |-> lostUsers, frames |-> frames[o]]

\* get_new_skeletons in a thread of its own, up to line 347; the handlers run in
\* the thread of run, and no lock keeps them out before line 348
get_new_skeletons_tmp(self) ==
    /\ pc = "idle"
    /\ Tick
    /\ pc' = "clear"
    /\ tmp' = GetNewSkeletonsTmp
    /\ tmpStamps' = {stamp[u] : u \in DOMAIN users}
    /\ drained' = drained \cup tmpStamps
    /\ last' = Call("get_new_skeletons", self, 0, "", FALSE)
    /\ UNCHANGED <<users, _users, frames, lostUsers, realWorld>>
    /\ UNCHANGED <<stamp, issued, published, fresh, listed, active, window, discarded>>
    /\ Objects(HeapGetNewSkeletonsTmp(heap))

\* get_new_skeletons in a thread of its own, lines 348 and 349
get_new_skeletons_clear(self) ==
    /\ pc = "clear"
    /\ pc' = "idle"
    /\ users' = GetNewSkeletonsUsers
    /\ stamp' = [u \in DOMAIN GetNewSkeletonsUsers |-> stamp[u]]
    /\ fresh' = FALSE
    /\ UNCHANGED <<_users, frames, lostUsers, realWorld, tmp, last, handled>>
    /\ UNCHANGED <<issued, published, drained, tmpStamps, listed, active, window, discarded>>
    /\ Objects(HeapGetNewSkeletonsClear(heap))

\* run in one thread, the program's calls of get_new_skeletons in another
NextThreads ==
    \/ run(1)
    \/ get_new_skeletons_tmp(1)
    \/ get_new_skeletons_clear(1)

SpecThreads == Init /\ [][NextThreads]_vars

\* the program also asks for the users
NextUsers ==
    \/ Next
    \/ get_users(1)

SpecUsers == Init /\ [][NextUsers]_vars

\* ------------------------------------------------------------------ claims
\* this step is the call of handler op
Handles(op) == handled' = handled + 1 /\ last'.op = op

\* this step is joint_callback(self, args)
JointStep(self, args) ==
    /\ Handles("joint")
    /\ last'.self = self /\ last'.user = args[2] /\ last'.key = str(args[1])
    /\ joint_callback(self, args)

\* this step is orient_callback(self, args)
OrientStep(self, args) ==
    /\ Handles("orient")
    /\ last'.self = self /\ last'.user = args[2] /\ last'.key = str(args[1])
    /\ orient_callback(self, args)

\* this step is new_user_callback(self, <<u>>)
NewUserStep(self, u) ==
    /\ Handles("new_user")
    /\ last'.self = self /\ last'.user = u
    /\ new_user_callback(self, <<u>>)

\* this step is lost_user_callback(self, <<u>>)
LostUserStep(self, u) ==
    /\ Handles("lost_user")
    /\ last'.self = self /\ last'.user = u
    /\ lost_user_callback(self, <<u>>)

\* this step is get_new_skeletons of self
DrainStep(self) ==
    /\ Handles("get_new_skeletons")
    /\ last'.self = self
    /\ get_new_skeletons(self)

\* the message repeats a label of the frame being assembled for its user
Repeats(args) ==
    /\ args[2] \in DOMAIN _users
    /\ str(args[1]) \in DOMAIN _users[args[2]].joints

\* C1: a /joint message whose label is already in the frame being assembled
\* publishes once: users[u] gets the joints and orientations _users[u] held
\* before the message (the earlier value of the label), the published records
\* of the other users stay, and frames goes up by exactly 1.
C1_PromotionCopiesPreviousFrame ==
    [][\A self \in Instances, args \in JointArgs :
        (JointStep(self, args) /\ Repeats(args)) =>
            LET u == args[2] IN
            /\ u \in DOMAIN users'
            /\ users'[u].joints = _users[u].joints
            /\ users'[u].orient = _users[u].orient
            /\ users'[u].id = u
            /\ DOMAIN users' = DOMAIN users \cup {u}
            /\ \A v \in DOMAIN users \ {u} : users'[v] = users[v]
            /\ frames'[self] = frames[self] + 1
            /\ \A i \in Instances \ {self} : frames'[i] = frames[i]
            /\ issued' = issued + 1]_vars

\* C1 witness: a publication whose orientations are saved and whose value for
\* the repeated label differs from the value of the message that triggered it
C1_Witness ==
    /\ last.op = "joint" /\ last.promoted
    /\ last.user \in DOMAIN users
    /\ users[last.user].orient # EmptyDict
    /\ users[last.user].joints[last.key] # _users[last.user].joints[last.key]
    /\ frames[1] = 1

\* C2: get_new_skeletons returns every Skeleton held in users and leaves users
\* empty; no publication is returned by two calls; a call with no publication
\* since the call before it (or since the start) returns nothing.
C2_DrainReturnsEachOnce ==
    [][\A self \in Instances :
        DrainStep(self) =>
            /\ tmp' = {users[u] : u \in DOMAIN users}
            /\ Cardinality(tmp') = Cardinality(DOMAIN users)
            /\ users' = EmptyDict
            /\ tmpStamps' \cap (drained \cup tmpStamps) = {}
            /\ Cardinality(tmpStamps') = Cardinality(tmp')
            /\ (~fresh => tmp' = {})]_vars

\* C2 witness: a second call that returns a publication, after a first that did
C2_Witness ==
    /\ last.op = "get_new_skeletons"
    /\ tmp # {}
    /\ drained # {}
    /\ users = EmptyDict

\* C3: users holds one Skeleton per user and the newest wins: a publication for
\* a user whose earlier publication was not fetched leaves in users[u] the
\* content of the new publication only, and get_new_skeletons returns exactly
\* one Skeleton for each user in users.
C3_NewestPublicationWins ==
    [][/\ \A self \in Instances, args \in JointArgs :
            (JointStep(self, args) /\ Repeats(args) /\ args[2] \in DOMAIN users) =>
                users'[args[2]] = [id |-> args[2],
                                   joints |-> _users[args[2]].joints,
                                   orient |-> _users[args[2]].orient]
       /\ \A self \in Instances :
            DrainStep(self) =>
                \A u \in Users :
                    Cardinality({s \in tmp' : s.id = u}) = IF u \in DOMAIN users THEN 1 ELSE 0
      ]_vars

\* C3 witness: the second publication for a user replaced the first, which no
\* call had fetched
C3_Witness ==
    /\ last.op = "joint" /\ last.over
    /\ stamp[last.user] = 2 /\ issued = 2
    /\ drained = {} /\ tmpStamps = {}
    /\ Cardinality(DOMAIN users[last.user].joints) = 1
    /\ handled = 4

\* C4 as stated: new_user_callback leaves the Skeleton of a user it already has
\* as it is, and never changes users.
C4_NewUserKeepsRecord ==
    [][\A self \in Instances, u \in Users :
        (NewUserStep(self, u) /\ u \in DOMAIN _users) =>
            (_users'[u] = _users[u] /\ users' = users)]_vars

\* C4 amended: new_user_callback replaces _users[u] by an empty Skeleton whether
\* or not the user is there, keeps the other users and users as they are, and
\* a /joint for that user right after it publishes nothing, whatever its label.
C4_NewUserResetsRecord ==
    [][/\ \A self \in Instances, u \in Users :
            NewUserStep(self, u) =>
                /\ _users' = [v \in DOMAIN _users \cup {u} |->
                                IF v = u
                                THEN [id |-> u, joints |-> EmptyDict, orient |-> EmptyDict]
                                ELSE _users[v]]
                /\ users' = users
                /\ frames' = frames
       /\ \A self \in Instances, args \in JointArgs :
            (JointStep(self, args) /\ last.op = "new_user" /\ last.user = args[2]) =>
                (users' = users /\ frames' = frames /\ ~last'.promoted)
      ]_vars

\* C4 witness: after two /joint of a user, the second of which published, the
\* third call is new_user for that user: its Skeleton in _users is empty again
\* and its published Skeleton is still in users
C4_Witness ==
    /\ handled = 3
    /\ last.op = "new_user"
    /\ last.user \in DOMAIN users
    /\ _users[last.user].joints = EmptyDict

\* C5: after lost_user_callback for u, u is a key of neither _users nor users,
\* whichever of the two it was in before; no exception leaves the handler; the
\* records of the other users are as before.
C5_LostUserRemovesBoth ==
    [][\A self \in Instances, u \in Users :
        LostUserStep(self, u) =>
            /\ u \notin DOMAIN _users'
            /\ u \notin DOMAIN users'
            /\ last'.exc = "none"
            /\ DOMAIN _users' = DOMAIN _users \ {u}
            /\ DOMAIN users' = DOMAIN users \ {u}
            /\ \A v \in DOMAIN _users' : _users'[v] = _users[v]
            /\ \A v \in DOMAIN users' : users'[v] = users[v]]_vars

\* C5 witness: three calls, the second a /joint that published for the user
\* and the third its lost_user: both records were there and both are gone
C5_Witness ==
    /\ handled = 3
    /\ last.op = "lost_user"
    /\ issued = 1
    /\ users = EmptyDict /\ _users = EmptyDict
    /\ tmpStamps = {}

\* C6 as stated: every lost_user_callback appends its user id to lostUsers.
C6_LostUserAlwaysLogged ==
    [][\A self \in Instances, u \in Users :
        LostUserStep(self, u) => lostUsers' = Append(lostUsers, u)]_vars

\* C6 amended: lost_user_callback appends its user id to the end of lostUsers
\* exactly when the user is a key of _users, and leaves lostUsers as it is
\* otherwise; no other call changes lostUsers.
C6_LostUserLoggedIfKnown ==
    [][/\ \A self \in Instances, u \in Users :
            LostUserStep(self, u) =>
                lostUsers' = IF u \in DOMAIN _users THEN Append(lostUsers, u) ELSE lostUsers
       /\ (\A self \in Instances, u \in Users : ~LostUserStep(self, u)) =>
                lostUsers' = lostUsers
      ]_vars

\* C6 witness: three calls, the second lost_user for a user the first had
\* created and the third lost_user for the other user, whom no message had
\* named: lostUsers holds the first user only
C6_Witness ==
    /\ handled = 3
    /\ last.op = "lost_user"
    /\ Len(lostUsers) = 1
    /\ lostUsers[1] # last.user
    /\ _users = EmptyDict

\* C7: the /joint that follows lost_user_callback for the same user creates
\* _users[u] anew with that one joint and no orientations, publishes nothing
\* (users and frames as before), and u stays out of users.
C7_JointAfterLostStartsFresh ==
    [][\A self \in Instances, args \in JointArgs :
        (JointStep(self, args) /\ last.op = "lost_user" /\ last.user = args[2]) =>
            LET u == args[2] IN
            /\ u \in DOMAIN _users'
            /\ _users'[u].id = u
            /\ DOMAIN _users'[u].joints = {str(args[1])}
            /\ _users'[u].joints[str(args[1])] = StoredPoint(self, args)
            /\ _users'[u].orient = EmptyDict
            /\ users' = users
            /\ frames' = frames
            /\ ~last'.promoted
            /\ u \notin DOMAIN users']_vars

\* C7 witness: a user with a published frame is lost and its next /joint starts
\* a Skeleton of one joint
C7_Witness ==
    /\ handled = 4
    /\ last.op = "joint" /\ ~last.promoted
    /\ lostUsers = <<last.user>>
    /\ issued = 1 /\ tmpStamps = {}
    /\ users = EmptyDict
    /\ DOMAIN _users[last.user].joints = {last.key}

\* C8: right after a /joint that published for u, _users[u] is still there and
\* holds one joint, the label of the message with the point of the message, and
\* no orientation.
C8_InProgressResetAfterPromotion ==
    [][\A self \in Instances, args \in JointArgs :
        (JointStep(self, args) /\ Repeats(args)) =>
            LET u == args[2] IN
            /\ u \in DOMAIN _users'
            /\ _users'[u].id = u
            /\ DOMAIN _users'[u].joints = {str(args[1])}
            /\ _users'[u].joints[str(args[1])] = StoredPoint(self, args)
            /\ _users'[u].orient = EmptyDict]_vars

\* C8 witness: a publication for a user that had two joints and an orientation
C8_Witness ==
    /\ last.op = "joint" /\ last.promoted
    /\ DOMAIN users[last.user].joints = {"head", "1"}
    /\ users[last.user].orient # EmptyDict
    /\ DOMAIN _users[last.user].joints = {last.key}
    /\ _users[last.user].orient = EmptyDict

\* C9: orient_callback publishes nothing: users, frames, lostUsers and the
\* joints of every Skeleton in _users stay, also when the label is already a
\* joint or an orientation of the user; it creates _users[u] if absent and
\* sets orient[label] to the rows (m0,m1,m2), (m3,m4,m5), (m6,m7,m8).
C9_OrientationNeverPromotes ==
    [][\A self \in Instances, args \in OrientArgs :
        OrientStep(self, args) =>
            LET u == args[2] IN
            /\ users' = users
            /\ frames' = frames
            /\ lostUsers' = lostUsers
            /\ DOMAIN _users' = DOMAIN _users \cup {u}
            /\ \A v \in DOMAIN _users : _users'[v].joints = _users[v].joints
            /\ u \notin DOMAIN _users => _users'[u].joints = EmptyDict
            /\ _users'[u].orient[str(args[1])] =
                 << <<args[3], args[4], args[5]>>,
                    <<args[6], args[7], args[8]>>,
                    <<args[9], args[10], args[11]>> >>]_vars

\* C9 witness: three calls for one user, a /joint and two /orient of the same
\* label, the second with other values: nothing is published
C9_Witness ==
    /\ handled = 3
    /\ last.op = "orient"
    /\ DOMAIN _users = {last.user}
    /\ DOMAIN _users[last.user].joints = {last.key}
    /\ DOMAIN _users[last.user].orient = {last.key}
    /\ _users[last.user].orient[last.key][1] = <<9, 8, 7>>
    /\ issued = 0 /\ frames[1] = 0

\* C10: frames of an OSCeleton object is the number of publications it made,
\* over all users; it never goes down, and only a /joint that repeats a label
\* of its user's frame changes it.
C10_FramesCountsPromotions ==
    /\ [](\A i \in Instances : frames[i] = published[i])
    /\ [][/\ \A i \in Instances : frames'[i] >= frames[i]
          /\ frames' # frames =>
                \E self \in Instances, args \in JointArgs :
                    JointStep(self, args) /\ Repeats(args)
         ]_vars

\* C10 witness: two publications, one for each user
C10_Witness ==
    /\ frames[1] = 2
    /\ DOMAIN users = {1, 2}
    /\ stamp[1] # stamp[2]

\* this step is new_skeleton_callback(self, <<u>>)
NewSkelStep(self, u) ==
    /\ Handles("new_skel")
    /\ last'.self = self /\ last'.user = u
    /\ new_skeleton_callback(self, <<u>>)

\* this step is do_nothing_callback of self
DefaultStep(self) ==
    /\ Handles("default")
    /\ last'.self = self
    /\ do_nothing_callback(self)

\* C14: new_skeleton_callback and do_nothing_callback change nothing (_users,
\* users, lostUsers, frames, realWorld all as before) and raise nothing, for a
\* user that is tracked and for one that is not.
C14_InformationalHandlersChangeNothing ==
    [][/\ \A self \in Instances, u \in Users :
            NewSkelStep(self, u) =>
                /\ UNCHANGED <<_users, users, lostUsers, frames, realWorld>>
                /\ last'.exc = "none"
       /\ \A self \in Instances :
            DefaultStep(self) =>
                /\ UNCHANGED <<_users, users, lostUsers, frames, realWorld>>
                /\ last'.exc = "none"
      ]_vars

\* C14 witness: new_skel names a user that is not tracked while the other is
C14_Witness ==
    /\ last.op = "new_skel"
    /\ last.user \notin DOMAIN _users
    /\ _users # EmptyDict
    /\ users # EmptyDict

\* C16: a /joint whose label is not in the frame of its user publishes nothing:
\* users and frames stay, the Skeletons of the other users stay, and the user's
\* joints gain the label and keep every entry and orientation they had. A
\* /joint that publishes for u leaves _users and users of the other users alone.
C16_FreshLabelOnlyExtendsFrame ==
    [][\A self \in Instances, args \in JointArgs :
        JointStep(self, args) =>
            LET u == args[2]
                k == str(args[1])
                old == IF u \in DOMAIN _users THEN _users[u] ELSE Skeleton(u)
            IN  /\ \A v \in DOMAIN _users \ {u} : v \in DOMAIN _users' /\ _users'[v] = _users[v]
                /\ DOMAIN _users' = DOMAIN _users \cup {u}
                /\ \A v \in DOMAIN users \ {u} : v \in DOMAIN users' /\ users'[v] = users[v]
                /\ DOMAIN users' \ {u} = DOMAIN users \ {u}
                /\ ~Repeats(args) =>
                     /\ users' = users
                     /\ frames' = frames
                     /\ DOMAIN _users'[u].joints = DOMAIN old.joints \cup {k}
                     /\ k \notin DOMAIN old.joints
                     /\ \A j \in DOMAIN old.joints : _users'[u].joints[j] = old.joints[j]
                     /\ _users'[u].joints[k] = StoredPoint(self, args)
                     /\ _users'[u].orient = old.orient]_vars

\* C16 witness: a second label joins the frame of a user that has an
\* orientation, while the other user is tracked and nothing is published
C16_Witness ==
    /\ last.op = "joint" /\ ~last.promoted
    /\ DOMAIN _users = {1, 2}
    /\ DOMAIN _users[last.user].joints = {"head", "1"}
    /\ _users[last.user].orient # EmptyDict
    /\ issued = 0

\* C17: every user with a published Skeleton in users has a Skeleton in _users.
C17_CompletedUsersAreActive ==
    DOMAIN users \subseteq DOMAIN _users

\* C17 witness: a user is lost after two users had a frame published: the
\* other's published Skeleton stays, and so does its Skeleton in _users
C17_Witness ==
    /\ last.op = "lost_user"
    /\ discarded # {}
    /\ users # EmptyDict
    /\ last.user \notin DOMAIN _users

\* C19: every Skeleton in users, and every Skeleton get_new_skeletons returned,
\* has at least one joint; a Skeleton enters users with exactly the joints of
\* the /joint messages of its user's frame: those received since the message
\* that opened the frame (the one that published the frame before, or the
\* first after new_user, lost_user or the start), one value for each label.
C19_SnapshotIsTheFrame ==
    /\ [](/\ \A u \in DOMAIN users : users[u].joints # EmptyDict
          /\ \A skel \in tmp : skel.joints # EmptyDict)
    /\ [][/\ \A u \in DOMAIN users' :
                (u \notin DOMAIN users \/ users'[u] # users[u]) =>
                    /\ u \in DOMAIN window
                    /\ window[u] # EmptyDict
                    /\ users'[u].joints = window[u]
          /\ tmp' \subseteq (tmp \cup {users[u] : u \in DOMAIN users})
         ]_vars

\* C19 witness: a user was lost, and the frame published for it afterwards
\* holds the one label received since, with the value of its first message
C19_Witness ==
    /\ handled = 5
    /\ last.op = "joint" /\ last.promoted
    /\ lostUsers = <<last.user>>
    /\ issued = 1
    /\ DOMAIN users[last.user].joints = {last.key}
    /\ _users[last.user].joints # users[last.user].joints

\* C20: a frame reaches the consumer one frame late: a Skeleton enters users
\* only by a /joint of its user that repeats a label of the frame, and holds
\* that frame; only get_new_skeletons changes what the consumer got; after
\* new_user or lost_user the user has no joints in _users, after lost_user no
\* Skeleton in users, and no publication lost_user removed is ever returned.
C20_PublicationLagsOneFrame ==
    /\ [](discarded \cap (drained \cup tmpStamps) = {})
    /\ [][/\ \A u \in DOMAIN users' :
                (u \notin DOMAIN users \/ users'[u] # users[u]) =>
                    \E self \in Instances, args \in JointArgs :
                        /\ args[2] = u
                        /\ JointStep(self, args)
                        /\ Repeats(args)
                        /\ users'[u].joints = _users[u].joints
                        /\ users'[u].orient = _users[u].orient
          /\ tmp' # tmp => \E self \in Instances : DrainStep(self)
          /\ \A self \in Instances, u \in Users :
                NewUserStep(self, u) => _users'[u].joints = EmptyDict
          /\ \A self \in Instances, u \in Users :
                LostUserStep(self, u) =>
                    /\ u \notin DOMAIN _users' /\ u \notin DOMAIN users'
                    /\ discarded' = discarded \cup {stamp[v] : v \in DOMAIN users \cap {u}}
         ]_vars

\* C20 witness: a frame is published, its user is lost, and the next
\* get_new_skeletons returns nothing
C20_Witness ==
    /\ handled = 4
    /\ last.op = "get_new_skeletons"
    /\ discarded = {1}
    /\ lostUsers # <<>>
    /\ tmp = {} /\ tmpStamps = {} /\ drained = {}

\* C12: get_users returns the keys of _users, which are the users whose latest
\* new_user, joint, orient or lost_user message is not lost_user: a user is
\* listed from its first /joint or /orient on, and not after lost_user.
C12_ListedUsersAreTracked ==
    last.op = "get_users" => (listed = DOMAIN _users /\ listed = active)

\* C12 witness: user 1 was created and lost, user 2 got an /orient and no
\* new_user: get_users returns user 2 alone
C12_Witness ==
    /\ handled = 4
    /\ last.op = "get_users"
    /\ listed = {2}
    /\ lostUsers = <<1>>
    /\ _users[2].orient # EmptyDict

\* this step is set_realWorld(self, b)
ModeStep(self, b) ==
    /\ Handles("realWorld")
    /\ last'.self = self
    /\ set_realWorld(self, b)

\* C13: a /joint stores its point as realWorld of its object is at that moment:
\* the raw (x, y, z) when it is off, (1280 - x*2560, 960 - y*1920, -z*1280)
\* when it is on, so that raw (0.5, 0.5, 0.5) is stored as (0, 0, -640).
\* Setting realWorld changes no point already stored or published.
C13_PointFollowsModeAtIngestion ==
    [][/\ \A self \in Instances, args \in JointArgs :
            JointStep(self, args) =>
                LET stored == _users'[args[2]].joints[str(args[1])] IN
                /\ ~realWorld[self] =>
                      stored = [x |-> args[3], y |-> args[4], z |-> args[5]]
                /\ realWorld[self] =>
                      /\ stored.x = 2 * 1280 - args[3] * 2560
                      /\ stored.y = 2 * 960 - args[4] * 1920
                      /\ stored.z = -(args[5] * 1280)
                /\ (realWorld[self] /\ <<args[3], args[4], args[5]>> = <<1, 1, 1>>) =>
                      stored = [x |-> 0, y |-> 0, z |-> 2 * (-640)]
                /\ realWorld' = realWorld
       /\ \A self \in Instances, b \in BOOLEAN :
            ModeStep(self, b) => UNCHANGED <<_users, users, tmp>>
      ]_vars

\* C13 witness: "head" was stored in millimetres from raw (0.5, 0.5, 0.5), the
\* mode was set back, and "1" was stored raw from the same coordinates
C13_Witness ==
    /\ ~realWorld[1]
    /\ last.op = "joint"
    /\ DOMAIN _users[last.user].joints = {"head", "1"}
    /\ _users[last.user].joints["head"] = [x |-> 0, y |-> 0, z |-> -1280]
    /\ _users[last.user].joints["1"] = [x |-> 1, y |-> 1, z |-> 1]

\* this step is a message handled by OSCeleton object self
HandledBy(self) ==
    /\ handled' = handled + 1
    /\ last'.self = self
    /\ last'.op \in {"new_user", "lost_user", "new_skel", "joint", "orient", "default"}

\* C15: the state is owned by the object: a message handled by one OSCeleton
\* object changes nothing of users, _users, lostUsers or frames as read through
\* another object, and frames of an object is the number of the frames saved
\* into the users that object reads. The code does not keep this.
C15_InstancesOwnTheirState ==
    [][\A self \in Instances :
          HandledBy(self) =>
              /\ \A o \in Instances \ {self} : Observed(o)' = Observed(o)
              /\ frames'[self] = issued'
      ]_vars

\* C11: get_new_skeletons reads and clears users as one step also when it runs
\* in another thread than the handlers: every Skeleton that it removes from users
\* is in the list it returns. The code does not keep this.
C11_DrainLosesNoSnapshot ==
    [][(pc = "clear" /\ pc' = "idle") =>
          {stamp[u] : u \in DOMAIN users} \subseteq tmpStamps
      ]_vars

\* the dictionaries and the returned list, read through the objects
HeapUsers(h, d) == [u \in DOMAIN d |-> SkeletonAt(h, d[u])]

\* the objects hold what users, _users and tmp say
ObjectsAgreeWithValues ==
    /\ users = HeapUsers(heap, heap.users)
    /\ _users = HeapUsers(heap, heap._users)
    /\ tmp = {SkeletonAt(heap, a) : a \in heap.tmp}

\* C18: a Skeleton in users keeps its joints and orient through every message
\* but the /joint that saves the next frame of its user, whatever is stored in
\* or cleared from _users meanwhile; a Skeleton of the list get_new_skeletons
\* returned is changed by no later message, and the next frame of its user is
\* saved into another Skeleton. The objects are the ones users, _users and tmp
\* describe.
C18_PublishedSkeletonIsFixed ==
    /\ []ObjectsAgreeWithValues
    /\ [][/\ \A u \in DOMAIN heap.users :
               (/\ u \in DOMAIN heap'.users
                /\ heap'.users[u] = heap.users[u]
                /\ ~(last'.op = "joint" /\ last'.promoted /\ last'.user = u))
               => SkeletonAt(heap', heap.users[u]) = SkeletonAt(heap, heap.users[u])
          /\ \A a \in heap.tmp :
               a \in heap'.tmp => SkeletonAt(heap', a) = SkeletonAt(heap, a)
          /\ \A u \in DOMAIN heap'.users : heap'.users[u] \notin heap'.tmp
         ]_vars

\* C18 witness: a Skeleton of a user was returned, the next frame of the user
\* was saved with other joints into another Skeleton, and a /joint of the frame
\* after that was stored since
C18_Witness ==
    /\ last.op = "joint"
    /\ ~last.promoted
    /\ last.user \in DOMAIN heap.users
    /\ \E a \in heap.tmp :
          /\ heap.skel[a].id = last.user
          /\ heap.users[last.user] # a
          /\ SkeletonAt(heap, a).joints # SkeletonAt(heap, heap.users[last.user]).joints
          /\ SkeletonAt(heap, a) \in tmp
====
